---- MODULE Spec2Model ----
(***************************************************************************)
(* A model of src/Rohan/Youtube.py: a tkinter window made of five panels   *)
(* (Header, Sidebar, VideoGrid, VideoPlayer, Comments).                    *)
(*                                                                         *)
(* A Python str is a sequence of pieces.  A keystroke contributes a piece  *)
(* of one character; a string literal of the source is one piece.  A       *)
(* character that a string of this module cannot hold is the piece naming  *)
(* its code point, as in "U+00A0".  The                                    *)
(* methods of the source are operators from a world record w to the world  *)
(* after the call; an action of the event loop applies one of them to the  *)
(* current state.                                                          *)
(***************************************************************************)
EXTENDS Integers, Sequences, FiniteSets

VARIABLES
    pc,             \* "start" before YouTubeApp() returns, then "mainloop"
    calls,          \* the constructor and create_widget calls made so far, in order
    search_entry,   \* content of Header.search_entry (tk.Entry)
    grid,           \* children of VideoGrid.grid, in creation order
    comment_entry,  \* content of Comments.comment_entry (tk.Text), without its final newline
    comments_list,  \* children of Comments.comments_list, in pack order
    event,          \* the call the event loop dispatched last
    effects         \* what that call wrote and changed, in the order it did

vars == <<pc, calls, search_entry, grid, comment_entry, comments_list, event, effects>>

----
\* Bounds of the model.

\* Longest content typed into the search box.
MaxQuery == 2
\* Longest content typed into the comment box.
MaxInput == 3
\* Submissions are explored while the comment list is shorter than this.
MaxComments == 3

\* Recorded runs of the nine random.randint calls that launches and rebuilds draw from.
DrawRuns == 2
\* Values strictly inside the range of random.randint that a launch of the
\* grid alone combines with the two ends.
InnerValues == 1
\* Tiles whose count may sit at the other end of the range than the rest.
EndChanges == 2

\* Keys the model presses in the search box and in the comment box.
QueryKeys == {"c"}
InputKeys == {"a", " ", "U+00A0"}

----
\* Program constants.

\* range(3), the rows of the grid
Rows == 3
\* range(3), the columns of the grid
Cols == 3
\* the 3 of f"Video {i*3+j+1}"
TitleStride == 3
\* random.randint(100, 1000000)
RandLo == 100
RandHi == 1000000

NumCells == Rows * Cols

----
\* Python and tkinter primitives.

\* The 29 characters str.strip() removes: those with str.isspace() true.
Whitespace ==
    {"\t", "\n", "U+000B", "\f", "\r", "U+001C", "U+001D", "U+001E", "U+001F", " ",
     "U+0085", "U+00A0", "U+1680",
     "U+2000", "U+2001", "U+2002", "U+2003", "U+2004", "U+2005", "U+2006", "U+2007",
     "U+2008", "U+2009", "U+200A",
     "U+2028", "U+2029", "U+202F", "U+205F", "U+3000"}

RECURSIVE lstrip(_)
lstrip(s) == IF s # <<>> /\ Head(s) \in Whitespace THEN lstrip(Tail(s)) ELSE s

RECURSIVE rstrip(_)
rstrip(s) == IF s # <<>> /\ s[Len(s)] \in Whitespace
             THEN rstrip(SubSeq(s, 1, Len(s) - 1))
             ELSE s

strip(s) == rstrip(lstrip(s))

Digit(d) == <<"0", "1", "2", "3", "4", "5", "6", "7", "8", "9">>[d + 1]

\* The decimal digits an f-string writes for a non-negative int.
RECURSIVE Str(_)
Str(n) == IF n < 10 THEN <<Digit(n)>> ELSE Str(n \div 10) \o <<Digit(n % 10)>>

\* tk.Entry.get(): the content.
Entry_get(content) == content

\* tk.Text.get("1.0", tk.END): the content and the newline that ends every Text.
Text_get(content) == content \o <<"\n">>

\* Variant: the range taken one too low.
randint_short(a, b) == (a - 1)..b
\* random.randint(a, b) returns some N with a <= N <= b.
randint(a, b) == a..b

\* print(line)
stdout_write(w, line) ==
    [w EXCEPT !.effects = Append(@, [kind |-> "stdout", line |-> line])]

\* UIComponent.__init__ of a panel class
UIComponent_init(w, cls) ==
    [w EXCEPT !.calls = Append(@, [cls |-> cls, op |-> "__init__"])]

\* Entering cls.create_widget
Enter_create_widget(w, cls) ==
    [w EXCEPT !.calls = Append(@, [cls |-> cls, op |-> "create_widget"])]

----
\* Header

Header_create_widget(w) ==
    [Enter_create_widget(w, "Header") EXCEPT !.search_entry = <<>>]

\* Variant: a search that strips the query and empties the box.
Header_search_stripped(w) ==
    [stdout_write(w, <<"Searching for: ">> \o strip(Entry_get(w.search_entry)))
        EXCEPT !.search_entry = <<>>]
Header_search(w) ==
    LET query == Entry_get(w.search_entry)
    IN  stdout_write(w, <<"Searching for: ">> \o query)

----
\* Sidebar and VideoPlayer: static widgets, no state

Sidebar_create_widget(w) == Enter_create_widget(w, "Sidebar")

VideoPlayer_create_widget(w) == Enter_create_widget(w, "VideoPlayer")

----
\* VideoGrid

\* SearchableComponent.search_videos, inherited by VideoGrid; not decorated
SearchableComponent_search_videos(w, query) ==
    stdout_write(w, <<"Searching videos for query: ">> \o query)

\* The frame built by the loop body for (i, j), with the view count drawn for it.
Tile(i, j, v) ==
    [row   |-> i,
     col   |-> j,
     title |-> <<"Video ">> \o Str(i * TitleStride + j + 1),
     views |-> Str(v) \o <<" views">>]

\* for widget in self.grid.winfo_children(): widget.destroy()
DestroyChildren(w) ==
    [w EXCEPT !.grid = <<>>,
              !.effects = @ \o [k \in 1..Len(w.grid) |->
                                   [kind |-> "destroy", child |-> k]]]

\* Variant: one count drawn for the whole grid.
CreateTiles_shared(w) ==
    LET new == [k \in 1..NumCells |->
                   Tile((k - 1) \div Cols, (k - 1) % Cols, w.draws[1])]
    IN  [w EXCEPT !.grid = @ \o new,
                  !.effects = @ \o [k \in 1..NumCells |->
                                       [kind |-> "create", tile |-> new[k]]]]

\* for i in range(3): for j in range(3): ...
\* w.draws[k] is what the k-th call of random.randint returns.
CreateTiles(w) ==
    LET new == [k \in 1..NumCells |->
                   Tile((k - 1) \div Cols, (k - 1) % Cols, w.draws[k])]
    IN  [w EXCEPT !.grid = @ \o new,
                  !.effects = @ \o [k \in 1..NumCells |->
                                       [kind |-> "create", tile |-> new[k]]]]

\* Variant: the destroy loop left out.
VideoGrid_update_grid_keep(w) == CreateTiles(w)
\* The children are destroyed, then the tiles are created on what is left.
VideoGrid_update_grid(w) ==
    CHOOSE after \in {CreateTiles(cleared) : cleared \in {DestroyChildren(w)}} : TRUE

----
\* Comments

\* Variant: the new frame packed before the others.
Comments_add_comment_prepend(w, user, text) ==
    LET entry == [user |-> user, text |-> text]
    IN  [w EXCEPT !.comments_list = <<entry>> \o @,
                  !.effects = Append(@, [kind |-> "append", entry |-> entry])]
\* Variant: an empty text refused.
Comments_add_comment_checked(w, user, text) ==
    LET entry == [user |-> user, text |-> text]
    IN  IF text = <<>> THEN w
        ELSE [w EXCEPT !.comments_list = Append(@, entry),
                       !.effects = Append(@, [kind |-> "append", entry |-> entry])]
Comments_add_comment(w, user, text) ==
    LET entry == [user |-> user, text |-> text]
    IN  [w EXCEPT !.comments_list = Append(@, entry),
                  !.effects = Append(@, [kind |-> "append", entry |-> entry])]

\* self.comment_entry.delete("1.0", tk.END): the content goes, the final newline stays
Text_delete(w) ==
    [w EXCEPT !.comment_entry = <<>>,
              !.effects = Append(@, [kind |-> "delete"])]

\* Variant: the text appended as read, not stripped.
Comments_submit_comment_raw(w) ==
    LET comment == Text_get(w.comment_entry)
    IN  IF strip(comment) # <<>>
        THEN Text_delete(Comments_add_comment(w, <<"You">>, comment))
        ELSE w
\* Variant: no test of the stripped text.
Comments_submit_comment_always(w) ==
    LET comment == strip(Text_get(w.comment_entry))
    IN  Text_delete(Comments_add_comment(w, <<"You">>, comment))
\* Variant: the box emptied on both branches.
Comments_submit_comment_clear(w) ==
    LET comment == strip(Text_get(w.comment_entry))
    IN  IF comment # <<>>
        THEN Text_delete(Comments_add_comment(w, <<"You">>, comment))
        ELSE [w EXCEPT !.comment_entry = <<>>]
Comments_submit_comment(w) ==
    LET comment == strip(Text_get(w.comment_entry))
    IN  IF comment # <<>>
        THEN Text_delete(Comments_add_comment(w, <<"You">>, comment))
        ELSE w

Comments_create_widget(w) ==
    LET built == [Enter_create_widget(w, "Comments")
                     EXCEPT !.comment_entry = <<>>, !.comments_list = <<>>]
        one   == Comments_add_comment(built, <<"User1">>, <<"Great video!">>)
    IN  Comments_add_comment(one, <<"User2">>,
                             <<"Very informative, thanks for sharing!">>)

----
\* log_action

LogLine(name) == <<"Action logged: ", name, " called">>

\* func(*args, **kwargs) for the decorated methods, by func.__name__
Call(func, w) ==
    CASE func = "search"         -> Header_search(w)
      [] func = "update_grid"    -> VideoGrid_update_grid(w)
      [] func = "submit_comment" -> Comments_submit_comment(w)

\* Variant: the line written after the call.
wrapper_after(func, w) == stdout_write(Call(func, w), LogLine(func))
wrapper(func, w) == Call(func, stdout_write(w, LogLine(func)))

\* VideoGrid.create_widget: a fresh self.grid frame, then the decorated update_grid
VideoGrid_create_widget(w) ==
    wrapper("update_grid", [Enter_create_widget(w, "VideoGrid") EXCEPT !.grid = <<>>])

----
\* YouTubeApp

\* Variant: Sidebar rendered before Header.
create_ui_swapped(w) ==
    Comments_create_widget(
    VideoPlayer_create_widget(
    VideoGrid_create_widget(
    Header_create_widget(
    Sidebar_create_widget(w)))))
create_ui(w) ==
    Comments_create_widget(
    VideoPlayer_create_widget(
    VideoGrid_create_widget(
    Sidebar_create_widget(
    Header_create_widget(w)))))

YouTubeApp_init(w) ==
    create_ui(
    UIComponent_init(
    UIComponent_init(
    UIComponent_init(
    UIComponent_init(
    UIComponent_init(w, "Header"), "Sidebar"), "VideoGrid"), "VideoPlayer"), "Comments"))

----
\* The state machine.

\* The world a dispatched call starts from; draws are what random.randint will return.
World(draws) ==
    [calls         |-> calls,
     search_entry  |-> search_entry,
     grid          |-> grid,
     comment_entry |-> comment_entry,
     comments_list |-> comments_list,
     effects       |-> <<>>,
     draws         |-> draws]

NoDraws == <<>>

\* All outcomes of the nine random.randint calls of one update_grid.
AllDraws == [1..NumCells -> randint(RandLo, RandHi)]

\* The outcomes the model tries.  An action takes those that are in AllDraws.
\* Values: the values next to the range on either side, its two ends, and
\* InnerValues values evenly spaced between them.
TriedValues ==
    {RandLo - 1, RandHi + 1} \cup
    {RandLo + (i * (RandHi - RandLo)) \div (InnerValues + 1) : i \in 0..(InnerValues + 1)}

\* The nine counts at one end of the range, but for up to EndChanges of them,
\* which are at the other end: every pair of tiles gets every pair of ends.
EndDraws ==
    {d \in [1..NumCells -> {RandLo, RandHi}] :
        \E v \in {RandLo, RandHi} :
            Cardinality({k \in 1..NumCells : d[k] # v}) <= EndChanges}

\* Runs of the nine calls as the generator made them: seed 0 (three runs in a
\* row), then seed 1 (two).
RecordedDraws ==
    <<<<885540, 404058, 794872, 933588, 441101, 42550, 271593, 536210, 509632>>,
      <<424704, 962938, 821972, 870263, 318146, 499848, 375541, 611820, 935073>>,
      <<952325, 229153, 529302, 146139, 295628, 146634, 792618, 99537, 648506>>,
      <<140991, 596953, 888698, 841335, 800975, 66272, 267559, 123746, 519601>>,
      <<798026, 471425, 495285, 683344, 398155, 827136, 220253, 98518, 511654>>>>

\* The first DrawRuns of the recorded runs.
SampleDraws == {RecordedDraws[i] : i \in 1..DrawRuns}

\* A recorded run with one of its draws replaced by a tried value.
EdgeDraws ==
    {[d EXCEPT ![k] = v] : d \in SampleDraws, k \in 1..NumCells, v \in TriedValues}

\* What the grid alone is launched and rebuilt with.
TriedDraws == EndDraws \cup EdgeDraws \cup SampleDraws

Commit(w, op, args) ==
    \E after \in {w} :
        /\ calls' = after.calls
        /\ search_entry' = after.search_entry
        /\ grid' = after.grid
        /\ comment_entry' = after.comment_entry
        /\ comments_list' = after.comments_list
        /\ effects' = after.effects
        /\ event' = [op |-> op, args |-> args]

Init ==
    /\ pc = "start"
    /\ calls = <<>>
    /\ search_entry = <<>>
    /\ grid = <<>>
    /\ comment_entry = <<>>
    /\ comments_list = <<>>
    /\ event = [op |-> "none", args |-> <<>>]
    /\ effects = <<>>

\* app = YouTubeApp(); app.mainloop() starts
Launch(draws) ==
    /\ pc = "start"
    /\ draws \in AllDraws
    /\ pc' = "mainloop"
    /\ Commit(YouTubeApp_init(World(draws)), "launch", <<>>)

\* The launch, with the draws taken from D.
LaunchFrom(D) == pc = "start" /\ \E d \in D : Launch(d)

\* A key pressed in the search box.
KeySearch(c) ==
    /\ pc = "mainloop"
    /\ Len(search_entry) < MaxQuery
    /\ Commit([World(NoDraws) EXCEPT !.search_entry = Append(@, c)], "key", <<>>)
    /\ UNCHANGED pc

\* A key pressed in the comment box.
KeyComment(c) ==
    /\ pc = "mainloop"
    /\ Len(comment_entry) < MaxInput
    /\ Commit([World(NoDraws) EXCEPT !.comment_entry = Append(@, c)], "key", <<>>)
    /\ UNCHANGED pc

\* The Search button: command=self.search
ClickSearch ==
    /\ pc = "mainloop"
    /\ Commit(wrapper("search", World(NoDraws)), "search", <<>>)
    /\ UNCHANGED pc

\* The Submit Comment button: command=self.submit_comment
ClickSubmit ==
    /\ pc = "mainloop"
    /\ Len(comments_list) < MaxComments
    /\ Commit(wrapper("submit_comment", World(NoDraws)), "submit_comment", <<>>)
    /\ UNCHANGED pc

\* video_grid.update_grid() on the running application: no widget is bound
\* to it, the call comes from outside the event loop's own bindings
Rebuild(draws) ==
    /\ pc = "mainloop"
    /\ draws \in AllDraws
    /\ Commit(wrapper("update_grid", World(draws)), "update_grid", <<>>)
    /\ UNCHANGED pc

\* video_grid.search_videos(query) on the running application
SearchVideos(query) ==
    /\ pc = "mainloop"
    /\ Commit(SearchableComponent_search_videos(World(NoDraws), query),
              "search_videos", <<query>>)
    /\ UNCHANGED pc

\* comments.add_comment(user, text) on the running application
AddComment(user, text) ==
    /\ pc = "mainloop"
    /\ Len(comments_list) < MaxComments
    /\ Commit(Comments_add_comment(World(NoDraws), user, text), "add_comment", <<user, text>>)
    /\ UNCHANGED pc

\* The queries search_videos is called with.
VideoQueries == {<<>>, <<"c", "a", "t", "s">>}

\* The running application: what the event loop dispatches, and update_grid
\* called on it.
Next ==
    \/ LaunchFrom(SampleDraws)
    \/ \E c \in QueryKeys : KeySearch(c)
    \/ \E c \in InputKeys : KeyComment(c)
    \/ ClickSearch
    \/ ClickSubmit
    \/ \E d \in SampleDraws : Rebuild(d)

Spec == Init /\ [][Next]_vars

\* VideoGrid alone: launched, then its public methods called directly, each
\* launch and rebuild with any of the tried draws.
NextGrid ==
    \/ LaunchFrom(TriedDraws)
    \/ \E d \in TriedDraws : Rebuild(d)
    \/ \E q \in VideoQueries : SearchVideos(q)

SpecGrid == Init /\ [][NextGrid]_vars

\* The comments panel, with add_comment called directly.
ApiUsers == {<<"Alice">>, <<"You">>}
ApiTexts == {<<>>, <<"Hi">>, <<" ">>}

NextApi ==
    \/ LaunchFrom(SampleDraws)
    \/ \E c \in InputKeys : KeyComment(c)
    \/ ClickSubmit
    \/ \E u \in ApiUsers, t \in ApiTexts : AddComment(u, t)

SpecApi == Init /\ [][NextApi]_vars

----
\* Vocabulary of the properties.

IsPrefix(s, t) == Len(s) <= Len(t) /\ SubSeq(t, 1, Len(s)) = s

AllWhite(s) == \A k \in 1..Len(s) : s[k] \in Whitespace

\* t is s without its leading and trailing whitespace, and is not empty.
IsTrimOf(t, s) ==
    \E i \in 1..Len(s) : \E j \in i..Len(s) :
        /\ s[i] \notin Whitespace
        /\ s[j] \notin Whitespace
        /\ AllWhite(SubSeq(s, 1, i - 1))
        /\ AllWhite(SubSeq(s, j + 1, Len(s)))
        /\ t = SubSeq(s, i, j)

Numerals == <<"0", "1", "2", "3", "4", "5", "6", "7", "8", "9">>

IsNumeral(ch) == \E d \in 1..10 : Numerals[d] = ch

NumeralValue(ch) == (CHOOSE d \in 1..10 : Numerals[d] = ch) - 1

\* The number a sequence of numerals denotes: value[n] is that of its first n.
ParseInt(ds) ==
    LET value[n \in 0..Len(ds)] ==
            IF n = 0 THEN 0 ELSE 10 * value[n - 1] + NumeralValue(ds[n])
    IN  value[Len(ds)]

\* The label text is a decimal numeral without leading zero followed by " views".
IsViewsLabel(text) ==
    /\ Len(text) >= 2
    /\ text[Len(text)] = " views"
    /\ \A k \in 1..(Len(text) - 1) : IsNumeral(text[k])
    /\ (Len(text) > 2 => text[1] # "0")

ViewCount(text) == ParseInt(SubSeq(text, 1, Len(text) - 1))

TilesAt(r, c) == {k \in 1..Len(grid) : grid[k].row = r /\ grid[k].col = c}

SeedComments ==
    <<[user |-> <<"User1">>, text |-> <<"Great video!">>],
      [user |-> <<"User2">>, text |-> <<"Very informative, thanks for sharing!">>]>>

LaunchCalls ==
    <<[cls |-> "Header",      op |-> "__init__"],
      [cls |-> "Sidebar",     op |-> "__init__"],
      [cls |-> "VideoGrid",   op |-> "__init__"],
      [cls |-> "VideoPlayer", op |-> "__init__"],
      [cls |-> "Comments",    op |-> "__init__"],
      [cls |-> "Header",      op |-> "create_widget"],
      [cls |-> "Sidebar",     op |-> "create_widget"],
      [cls |-> "VideoGrid",   op |-> "create_widget"],
      [cls |-> "VideoPlayer", op |-> "create_widget"],
      [cls |-> "Comments",    op |-> "create_widget"]>>

\* The positions in effects of the lines log_action writes, and of search reports.
LogLines ==
    {k \in 1..Len(effects) :
        effects[k].kind = "stdout" /\ effects[k].line[1] = "Action logged: "}

ReportLines(eff) ==
    {k \in 1..Len(eff) : eff[k].kind = "stdout" /\ eff[k].line[1] = "Searching for: "}

Appends(eff) == {k \in 1..Len(eff) : eff[k].kind = "append"}

----
\* C1: once the application runs, whatever calls have been dispatched, the
\* grid holds exactly 9 tiles, exactly one at each (row, col) of 0..2 x 0..2,
\* and the tile at (row, col) is titled "Video " followed by row*3+col+1.
C1_GridNineTiles ==
    pc = "mainloop" =>
        /\ Len(grid) = 9
        /\ \A r \in 0..2 : \A c \in 0..2 :
              /\ Cardinality(TilesAt(r, c)) = 1
              /\ \A k \in TilesAt(r, c) :
                    grid[k].title = <<"Video ", Numerals[r * 3 + c + 2]>>

\* A rebuild on the running application, after a comment was submitted.
C1_Witness ==
    /\ event.op = "update_grid"
    /\ Len(comments_list) > 2
    /\ Len(grid) = 9
    /\ Len(effects) = 19

\* C2: a submit whose input box holds text that is not all whitespace appends
\* exactly one entry, user "You" with the trimmed text, leaves the earlier
\* entries alone and empties the input box.
C2_SubmitAppendsTrimmed ==
    [][(event'.op = "submit_comment" /\ ~AllWhite(comment_entry)) =>
          /\ \E t \in {comments_list'[Len(comments_list')].text} :
                /\ IsTrimOf(t, comment_entry)
                /\ comments_list' = Append(comments_list, [user |-> <<"You">>, text |-> t])
          /\ comment_entry' = <<>>]_vars

\* A submitted comment whose text kept its inner no-break space.
C2_Witness ==
    /\ event.op = "submit_comment"
    /\ Len(comments_list) = 3
    /\ comments_list[3] = [user |-> <<"You">>, text |-> <<"a", "U+00A0", "a">>]
    /\ comment_entry = <<>>

\* C3: a submit whose input box is empty or all whitespace leaves the comment
\* list as it was and appends nothing.
C3_SubmitBlankNoOp ==
    [][(event'.op = "submit_comment" /\ AllWhite(comment_entry)) =>
          /\ comments_list' = comments_list
          /\ Appends(effects') = {}]_vars

\* A submit of a space and a no-break space that added nothing to the seeds.
C3_Witness ==
    /\ event.op = "submit_comment"
    /\ comment_entry = <<" ", "U+00A0">>
    /\ comments_list = SeedComments
    /\ Len(effects) = 1

\* C4: the comment list before a step is a prefix of the list after it.
C4_AppendOnly == [][IsPrefix(comments_list, comments_list')]_vars

\* A comment was submitted after the seeds and other calls followed.
C4_Witness ==
    /\ Len(comments_list) = 3
    /\ SubSeq(comments_list, 1, 2) = SeedComments
    /\ comments_list[3].user = <<"You">>
    /\ event.op = "search"

\* C5: the launch leaves exactly the two seed comments, in order; a call of
\* add_comment(user, text) appends exactly the entry (user, text), for every
\* user and text, the empty text included.
C5_SeedsThenAppend ==
    [][/\ event'.op = "launch" => comments_list' = SeedComments
       /\ event'.op = "add_comment" =>
             comments_list' =
                 Append(comments_list, [user |-> event'.args[1], text |-> event'.args[2]])]_vars

\* add_comment("Alice", "") on the freshly rendered panel.
C5_Witness ==
    /\ event.op = "add_comment"
    /\ event.args = << <<"Alice">>, <<>> >>
    /\ Len(comments_list) = 3
    /\ comments_list[3] = [user |-> <<"Alice">>, text |-> <<>>]

\* C6: nothing is dispatched before the launch; the launch constructs the five
\* panels and then renders each exactly once, in the order Header, Sidebar,
\* VideoGrid, VideoPlayer, Comments, and no later call renders again.
C6_LaunchOrder ==
    /\ pc = "start" => (calls = <<>> /\ event.op = "none")
    /\ pc = "mainloop" => calls = LaunchCalls

\* A user action dispatched after the launch.
C6_Witness ==
    /\ pc = "mainloop"
    /\ event.op = "search"
    /\ Len(calls) = 10

\* C7: a dispatched search, update_grid or submit_comment writes exactly one
\* log line, naming it, before anything else it does; the launch writes
\* exactly one, for update_grid, before any tile is destroyed or created; a
\* key press and the undecorated search_videos write none.
C7_LogFirst ==
    /\ event.op \in {"search", "update_grid", "submit_comment"} =>
          /\ LogLines = {1}
          /\ effects[1].line = <<"Action logged: ", event.op, " called">>
    /\ event.op = "launch" =>
          \E k \in 1..Len(effects) :
              /\ LogLines = {k}
              /\ effects[k].line = <<"Action logged: ", "update_grid", " called">>
              /\ \A m \in 1..Len(effects) :
                    effects[m].kind \in {"destroy", "create"} => m > k
    /\ event.op \in {"none", "key", "search_videos"} => LogLines = {}

\* A submit that did nothing but was logged.
C7_Witness ==
    /\ event.op = "submit_comment"
    /\ Len(effects) = 1
    /\ LogLines = {1}

\* C8: a search writes exactly one report, "Searching for: " followed by the
\* content of the search box, and leaves the search box, the grid, the comment
\* list and the comment box as they were.
C8_SearchReportsOnly ==
    [][event'.op = "search" =>
          /\ \E k \in 1..Len(effects') :
                /\ ReportLines(effects') = {k}
                /\ effects'[k].line = <<"Searching for: ">> \o search_entry
          /\ UNCHANGED <<search_entry, grid, comments_list, comment_entry>>]_vars

\* A search for "cc" with a comment typed but not submitted.
C8_Witness ==
    /\ event.op = "search"
    /\ search_entry = <<"c", "c">>
    /\ comment_entry # <<>>
    /\ ReportLines(effects) = {2}

\* C9: every tile's views label is "<v> views" with 100 <= v <= 1000000; and
\* in every state of the running application, whatever the grid holds, a
\* rebuild can draw any of the tried nine counts whose values all lie in
\* 100..1000000, and no others, and it leaves tile k with the k-th count.
C9_ViewsInRangeAnyDraw ==
    /\ \A k \in 1..Len(grid) :
          /\ IsViewsLabel(grid[k].views)
          /\ 100 <= ViewCount(grid[k].views)
          /\ ViewCount(grid[k].views) <= 1000000
    /\ pc = "mainloop" =>
          \A d \in TriedDraws :
              (\A k \in 1..9 : 100 <= d[k] /\ d[k] <= 1000000)
              <=> ENABLED (/\ Rebuild(d)
                           /\ Len(grid') = 9
                           /\ \A k \in 1..9 :
                                 /\ IsViewsLabel(grid'[k].views)
                                 /\ ViewCount(grid'[k].views) = d[k])

\* A rebuild that left the lower end beside the upper end, on a grid that a
\* search_videos call then left alone.
C9_Witness ==
    /\ event.op = "search_videos"
    /\ Len(effects) = 1
    /\ ViewCount(grid[1].views) = 100
    /\ ViewCount(grid[2].views) = 1000000
    /\ ViewCount(grid[3].views) = 100
    /\ ViewCount(grid[9].views) = 1000000

\* C10: a submit of a non-empty all-whitespace input leaves the input box as
\* it was; after a submit the box is empty exactly when a comment was appended
\* or the box was empty before.
C10_ClearOnlyOnAppend ==
    [][event'.op = "submit_comment" =>
          /\ (AllWhite(comment_entry) /\ comment_entry # <<>>) =>
                comment_entry' = comment_entry
          /\ comment_entry' = <<>> <=>
                (\/ Len(comments_list') = Len(comments_list) + 1
                 \/ comment_entry = <<>>)]_vars

\* A submit that left one no-break space in the box.
C10_Witness ==
    /\ event.op = "submit_comment"
    /\ comment_entry = <<"U+00A0">>
    /\ Len(comments_list) = 2

====
